---- MODULE Spec2Model ----
(***************************************************************************)
(* Model of the audio-quality backend of UX-Tradeoffs-App:                 *)
(*   backend/src/webrtc/codec_call.py   (codec pipeline, comparators)      *)
(*   backend/src/pesq_module/pesq_score.py (PESQ score, simulation mode)   *)
(*   backend/src/peaq/peaq.py           (ODG estimator)                    *)
(*   backend/src/app.py                 (HTTP endpoints storing uploads)   *)
(*                                                                         *)
(* Spec      one request at a time (process 1 only)                        *)
(* SpecConc  NumProcs requests interleaved at every file operation         *)
(* SpecOdg   the numeric part of compute_peaq_odg on bounded inputs        *)
(***************************************************************************)
EXTENDS Integers, Sequences, FiniteSets, TLC

VARIABLES
    refExists,      \* the reference WAV (REFERENCE_AUDIO) is on disk
    pesqInstalled,  \* `from pesq import pesq` succeeded at import time
    fs,             \* the temporary directory: name -> file or NoFile
    pr,             \* per request: position, local variables, result
    track,          \* whether hist is recorded (it is not in SpecConc)
    hist,           \* per request: what happened (invocations, failures)
    acc,            \* the file operations of the step just taken that hit a
                    \* file of another call (or created over an existing one)
    nRef,           \* SpecOdg: samples of the loaded reference
    nDeg,           \* SpecOdg: samples of the loaded degraded signal
    fsRef,          \* SpecOdg: sample rate of the reference
    fsDeg,          \* SpecOdg: sample rate of the degraded signal
    logRef,         \* SpecOdg: log10 magnitudes of the reference cells
    logDeg,         \* SpecOdg: log10 magnitudes of the degraded cells
    opc,            \* SpecOdg: position in compute_peaq_odg
    odgRes,         \* SpecOdg: the returned dict (odg_score, lsd)
    al,             \* SpecAlign: buffer lengths on the way to a score call
    pcm,            \* SpecPcm: one sample through load, write and load
    ld,             \* SpecLoad: one call of a WAV loader
    ss,             \* SpecSub: the lengths in spectral_subtract
    gn              \* SpecGain: the gain mask of spectral_subtract

vars == <<refExists, pesqInstalled, fs, pr, track, hist, acc,
          nRef, nDeg, fsRef, fsDeg, logRef, logDeg, opc, odgRes,
          al, pcm, ld, ss, gn>>

\* The variables of the specifications of single functions.
calcVars == <<al, pcm, ld, ss, gn>>

envVars == <<refExists, pesqInstalled, track, calcVars>>
odgVars == <<nRef, nDeg, fsRef, fsDeg, logRef, logDeg, opc, odgRes>>

----------------------------------------------------------------------------
(* Bounds *)

NumProcs == 2
NumNames == 8
MaxLen == 3
MaxRate == 2

(* Program constants *)

StageTimeout == 30
OdgFloor == 4000

\* 16-bit PCM
Int16Min == -32768
Int16Max == 32767
LoadScale == 32768
WriteScale == 32767

\* Sample rates are counted in units of 8 kHz.
Sr8k == 1
Sr16k == 2

Procs == 1..NumProcs
Names == 1..NumNames

----------------------------------------------------------------------------
(* The temporary directory *)

NoFile == [owner |-> 0, role |-> "none", path |-> "-", content |-> "none"]

File(p, role, path, content) ==
    [owner |-> p, role |-> role, path |-> path, content |-> content]

Free(f) == {n \in Names : f[n] = NoFile}

\* A faulty variant of TempName: the name is taken without the exclusive create.
TempNameNotExclusive(f) == 1

\* tempfile.NamedTemporaryFile(delete=False): mkstemp creates the file with
\* O_EXCL, so the name it returns did not exist.  Which unused name it is
\* does not matter to the callers; the model takes the lowest one.
TempName(f) == CHOOSE n \in Names : f[n] = NoFile /\ \A m \in Free(f) : n <= m

\* One file operation of call p on name n, kept when it is not p's to do:
\* a create over a file that exists, or a read, write or delete of a file
\* that p did not create (or that is gone).
AccessIn(f, p, op, n) ==
    IF (op = "create" /\ f[n] /= NoFile) \/ (op /= "create" /\ f[n].owner /= p)
    THEN {[by |-> p, op |-> op, name |-> n, owner |-> f[n].owner]}
    ELSE {}

Access(p, op, n) == AccessIn(fs, p, op, n)

FilesOf(p) == {n \in Names : fs[n].owner = p}

----------------------------------------------------------------------------
(* Python dicts: a function from the keys present to the kind of value *)

EmptyDict == [k \in {} |-> "str"]

\* d[k] = v
Put(d, k, v) == [x \in (DOMAIN d) \cup {k} |-> IF x = k THEN v ELSE d[x]]

\* d.get(k): None for a key that is absent
Get(d, k) == IF k \in DOMAIN d THEN d[k] ELSE "null"

----------------------------------------------------------------------------
(* Requests *)

Kinds == {"opus", "g711", "call", "device", "peaq", "pesq", "compare",
          "vmaf", "iqa"}
PipelineKinds == {"opus", "g711"}
ComparatorKinds == {"call", "device"}
UploadKinds == {"device", "peaq", "pesq", "vmaf", "iqa"}
Paths == {"wb", "nb"}
Slots == {"direct", "wb", "nb"}

\* How one external-process invocation ends: exit status 0, the executable
\* is not found, the timeout expires, a non-zero exit status.
Outcomes == {"ok", "missing", "timeout", "nonzero"}
Contents == {"empty", "data"}

SubName(x) ==
    CASE x = "wb" -> "voip_wideband"
      [] x = "nb" -> "traditional_narrowband"
      [] OTHER -> "direct_recording"

Idle == [kind |-> "idle", pc |-> "idle", err |-> "none", path |-> "-",
         tmp |-> 0, noise |-> 0, rec |-> 0, comp |-> 0, outl |-> 0,
         wbp |-> 0, nbp |-> 0,
         res |-> EmptyDict, sub |-> EmptyDict]

\* What is recorded of a request, for the properties:
\*   inv[x]    the external-process invocations of the pipeline call of
\*             path x, in order: <<stage, outcome, timeout>>
\*   edEnd[x]  how that pipeline call ended: "returned", or the exception
\*   sfail[x]  the step of path x that raised in the comparator
\*   score[s]  how the pesq_score call of slot s ended
NoHist == [inv |-> [x \in Paths |-> <<>>],
           edEnd |-> [x \in Paths |-> "none"],
           sfail |-> [x \in Paths |-> "none"],
           score |-> [s \in Slots |-> "none"]]

Record(p, h) == hist' = IF track THEN [hist EXCEPT ![p] = h] ELSE hist

InitReq ==
    /\ refExists \in BOOLEAN
    /\ pesqInstalled \in BOOLEAN
    /\ fs = [n \in Names |-> NoFile]
    /\ pr = [p \in Procs |-> Idle]
    /\ hist = [p \in Procs |-> NoHist]
    /\ acc = {}

InitOdgIdle ==
    /\ nRef = 0
    /\ nDeg = 0
    /\ fsRef = 1
    /\ fsDeg = 1
    /\ logRef = <<>>
    /\ logDeg = <<>>
    /\ opc = "off"
    /\ odgRes = EmptyDict

\* No single-function specification is running.
CalcOff == [pc |-> "off"]

InitCalcIdle ==
    /\ al = CalcOff
    /\ pcm = CalcOff
    /\ ld = CalcOff
    /\ ss = CalcOff
    /\ gn = CalcOff

\* A request of kind k arrives: the position where its code starts.
Begin(r, k) ==
    [r EXCEPT !.kind = k,
              !.path = IF k = "opus" THEN "wb" ELSE IF k = "g711" THEN "nb" ELSE "-",
              !.pc = IF k \in PipelineKinds THEN "ed_alloc"
                     ELSE IF k \in UploadKinds THEN "ep_read"
                     ELSE "fn_check"]

\* A request arrives: GET /webrtc/call, POST /webrtc/device-call,
\* POST /peaq/score, POST /pesq/score, GET /pesq/compare, POST /vmaf/score,
\* POST /iqa/score, or a direct call of encode_decode_opus /
\* encode_decode_g711.
Start(p) ==
    /\ pr[p].pc = "idle"
    /\ \E k \in Kinds : pr' = [pr EXCEPT ![p] = Begin(@, k)]
    /\ acc' = {}
    /\ UNCHANGED <<envVars, hist, fs, odgVars>>

\* The requests of the concurrent specification, all of them users of the
\* codec pipeline: the first is a comparator call or a pipeline call, the
\* others are encode_decode_opus calls running beside it.
ConcKinds(p) == IF p = 1 THEN PipelineKinds \cup ComparatorKinds ELSE {"opus"}

StartConc(p) ==
    /\ pr[p].pc = "idle"
    /\ \E k \in ConcKinds(p) : pr' = [pr EXCEPT ![p] = Begin(@, k)]
    /\ acc' = {}
    /\ UNCHANGED <<envVars, hist, fs, odgVars>>

\* app.py: contents = await upload.read(); an empty upload is refused with
\* HTTP 400; otherwise the upload is stored in a NamedTemporaryFile.
EpRead(p) ==
    /\ pr[p].pc = "ep_read"
    /\ \/ /\ pr' = [pr EXCEPT ![p] = [@ EXCEPT !.pc = "done", !.err = "http400"]]
          /\ acc' = {}
          /\ fs' = fs
       \/ /\ Free(fs) /= {}
          /\ LET n == TempName(fs) IN
               /\ fs' = [fs EXCEPT ![n] = File(p, "upload", "-", "data")]
               /\ acc' = Access(p, "create", n)
               /\ pr' = [pr EXCEPT ![p] =
                           [@ EXCEPT !.tmp = n,
                                     !.pc = CASE pr[p].kind = "peaq" -> "ep_noise"
                                              [] pr[p].kind = "vmaf" -> "vm_probe"
                                              [] pr[p].kind = "iqa" -> "iq_score"
                                              [] OTHER -> "fn_check"]]
    /\ UNCHANGED <<envVars, hist, odgVars>>

\* app.py calculate_peaq: the optional room_noise upload, stored only when
\* it is given and not empty.
EpNoise(p) ==
    /\ pr[p].pc = "ep_noise"
    /\ \/ /\ pr' = [pr EXCEPT ![p] = [@ EXCEPT !.pc = "fn_check"]]
          /\ acc' = {}
          /\ fs' = fs
       \/ /\ Free(fs) /= {}
          /\ LET n == TempName(fs) IN
               /\ fs' = [fs EXCEPT ![n] = File(p, "noise", "-", "data")]
               /\ acc' = Access(p, "create", n)
               /\ pr' = [pr EXCEPT ![p] = [@ EXCEPT !.noise = n, !.pc = "fn_check"]]
    /\ UNCHANGED <<envVars, hist, odgVars>>

\* A faulty variant of RefPresent: the existence check of the reference is skipped.
RefPresentUnchecked == TRUE

\* ref_path.exists()
RefPresent == refExists

\* The checks every scoring function starts with, in the order of the code:
\* make_webrtc_call / make_device_webrtc_call: ffmpeg, pesq, reference;
\* compute_pesq / compute_pesq_comparison: pesq, reference;
\* compute_peaq_odg: reference.
FnCheckError(k, ffmpegOk) ==
    IF k \in ComparatorKinds /\ ~ffmpegOk THEN "ffmpeg_not_found"
    ELSE IF k \in {"call", "device", "pesq", "compare"} /\ ~pesqInstalled
         THEN "pesq_not_installed"
    ELSE IF ~RefPresent THEN "ref_not_found"
    ELSE "none"

FnCheck(p) ==
    /\ pr[p].pc = "fn_check"
    /\ \E ffmpegOk \in BOOLEAN :
         LET e == FnCheckError(pr[p].kind, ffmpegOk) IN
           /\ pr[p].kind \notin ComparatorKinds => ffmpegOk
           /\ pr' = [pr EXCEPT ![p] =
                       IF e = "none" THEN [@ EXCEPT !.pc = "fn_load"]
                       ELSE [@ EXCEPT !.pc = "fn_raised", !.err = e]]
    /\ acc' = {}
    /\ UNCHANGED <<envVars, hist, fs, odgVars>>

ErrorDict == [error |-> "str"]

\* What follows one codec path of a comparator: the narrowband path after
\* the wideband one, then the clean-up (device call) or the return.
AfterPath(r) ==
    IF r.path = "wb" THEN [r EXCEPT !.pc = "ed_alloc", !.path = "nb"]
    ELSE [r EXCEPT !.path = "-",
                   !.pc = IF r.kind = "device" THEN "dv_cleanup"
                          ELSE "fn_returned"]

\* A faulty variant of PathError: the unlink of the 16 kHz copy sits inside
\* the try of the last path, so a failure of that path skips it.
PathErrorSkipsCleanup(r) ==
    LET n == AfterPath([r EXCEPT !.sub = Put(@, SubName(r.path), ErrorDict)])
    IN IF n.pc = "dv_cleanup" THEN [n EXCEPT !.pc = "fn_returned"] ELSE n

\* except Exception as e: result[<path>] = {"error": str(e)}
PathError(r) ==
    AfterPath([r EXCEPT !.sub = Put(@, SubName(r.path), ErrorDict)])

\* What follows one guarded call of pesq_score.
AfterSlot(r, s) ==
    IF r.kind \in {"pesq", "compare"}
    THEN [r EXCEPT !.pc = IF s = "wb" THEN "sc_nb" ELSE "fn_returned",
                   !.res = IF r.kind = "pesq" /\ s = "nb"
                           THEN Put(@, "details", "dict") ELSE @]
    ELSE IF s = "direct" THEN [r EXCEPT !.pc = "ed_alloc", !.path = "wb"]
    ELSE AfterPath(r)

\* A faulty variant of ScoreOk: the sub-results of the simulation carry no
\* codec_simulation label.
ScoreOkUnlabelled(r, s) ==
    AfterSlot(
      CASE r.kind = "pesq" ->
             [r EXCEPT !.res = Put(@, "pesq_" \o s, "num")]
        [] r.kind = "compare" ->
             [r EXCEPT !.sub = Put(@, SubName(s),
                 [pesq_score |-> "num", sample_rate |-> "num"])]
        [] r.kind \in ComparatorKinds /\ s = "direct" ->
             [r EXCEPT !.sub = Put(@, SubName(s),
                 [pesq_score |-> "num", description |-> "str"])]
        [] OTHER ->
             [r EXCEPT !.sub = Put(@, SubName(s),
                 [pesq_score |-> "num", codec |-> "str", sample_rate |-> "num",
                  bitrate |-> "str", mode |-> "str", description |-> "str"]),
                       !.res = Put(@, s \o "_degraded_audio_b64", "str")],
      s)

\* The try branch after pesq_score returned a number.
ScoreOk(r, s) ==
    AfterSlot(
      CASE r.kind = "pesq" ->
             [r EXCEPT !.res = Put(@, "pesq_" \o s, "num")]
        [] r.kind = "compare" ->
             [r EXCEPT !.sub = Put(@, SubName(s),
                 [pesq_score |-> "num", sample_rate |-> "num",
                  codec_simulation |-> "str"])]
        [] r.kind \in ComparatorKinds /\ s = "direct" ->
             [r EXCEPT !.sub = Put(@, SubName(s),
                 [pesq_score |-> "num", description |-> "str"])]
        [] OTHER ->
             [r EXCEPT !.sub = Put(@, SubName(s),
                 [pesq_score |-> "num", codec |-> "str", sample_rate |-> "num",
                  bitrate |-> "str", mode |-> "str", description |-> "str"]),
                       !.res = Put(@, s \o "_degraded_audio_b64", "str")],
      s)

\* A faulty variant of ScoreGuard: the call of pesq_score is not guarded and its
\* exception leaves the scoring function.
ScoreUnguarded(r, s) == [r EXCEPT !.pc = "fn_raised", !.err = "score_error"]

\* A faulty variant of ScoreGuard: the Base64 audio of the path is put into
\* the result before the score is computed, so it stays when the score
\* raises.
ScoreGuardAudioFirst(r, s) ==
    AfterSlot(
      IF r.kind = "pesq"
      THEN [r EXCEPT !.res = Put(Put(@, "pesq_" \o s, "null"),
                                 "pesq_" \o s \o "_error", "str")]
      ELSE [r EXCEPT !.sub = Put(@, SubName(s), ErrorDict),
                     !.res = Put(@, s \o "_degraded_audio_b64", "str")],
      s)

\* The except branch of a guarded pesq_score call:
\* compute_pesq: result["pesq_wb"] = None; result["pesq_wb_error"] = str(e)
\* elsewhere:    result[<path>] = {"error": str(e)}
ScoreGuard(r, s) ==
    AfterSlot(
      IF r.kind = "pesq"
      THEN [r EXCEPT !.res = Put(Put(@, "pesq_" \o s, "null"),
                                 "pesq_" \o s \o "_error", "str")]
      ELSE [r EXCEPT !.sub = Put(@, SubName(s), ErrorDict)],
      s)

\* _load_wav of the reference and of the uploads, and what the function
\* builds before its first score: the loaders raise on a file that is not
\* there or cannot be parsed, and that error leaves the function.
FnLoad(p) ==
    /\ pr[p].pc = "fn_load"
    /\ \E ok \in BOOLEAN :
         LET r == pr[p] IN
           /\ ok => refExists
           /\ pr' = [pr EXCEPT ![p] =
                IF ~ok THEN [r EXCEPT !.pc = "fn_raised", !.err = "load_error"]
                ELSE CASE r.kind = "call" ->
                            [r EXCEPT !.pc = "ed_alloc", !.path = "wb",
                                      !.res = [type |-> "str", description |-> "str",
                                               reference_audio_b64 |-> "str"]]
                       [] r.kind = "device" -> [r EXCEPT !.pc = "dv_rec16k"]
                       [] r.kind = "compare" ->
                            [r EXCEPT !.pc = "sc_wb",
                                      !.res = [description |-> "str",
                                               reference_audio_b64 |-> "str",
                                               wb_degraded_audio_b64 |-> "str",
                                               nb_degraded_audio_b64 |-> "str"]]
                       [] r.kind = "pesq" -> [r EXCEPT !.pc = "sc_wb"]
                       [] OTHER -> [r EXCEPT !.pc = "pq_score"]]
           /\ acc' = UNION {Access(p, "read", n) : n \in {r.tmp, r.noise} \ {0}}
    /\ UNCHANGED <<envVars, hist, fs, odgVars>>

\* compute_peaq_odg after the loads: spectral subtraction when a noise file
\* is given, the LSD and the ODG; no file is touched.
PqScore(p) ==
    /\ pr[p].pc = "pq_score"
    /\ pr' = [pr EXCEPT ![p] =
                [@ EXCEPT !.pc = "fn_returned",
                          !.res = IF pr[p].noise /= 0
                                  THEN [odg_score |-> "num", lsd |-> "num",
                                        details |-> "dict",
                                        subtracted_audio_b64 |-> "str"]
                                  ELSE [odg_score |-> "num", lsd |-> "num",
                                        details |-> "dict"]]]
    /\ acc' = {}
    /\ UNCHANGED <<envVars, hist, fs, odgVars>>

\* compute_pesq and compute_pesq_comparison: the two guarded score calls.
Score(p) ==
    /\ pr[p].pc \in {"sc_wb", "sc_nb"}
    /\ LET r == pr[p]
           s == IF r.pc = "sc_wb" THEN "wb" ELSE "nb"
       IN \E ok \in BOOLEAN :
            /\ pr' = [pr EXCEPT ![p] = IF ok THEN ScoreOk(r, s) ELSE ScoreGuard(r, s)]
            /\ Record(p, [hist[p] EXCEPT !.score[s] = IF ok THEN "ok" ELSE "raised"])
    /\ acc' = {}
    /\ UNCHANGED <<envVars, fs, odgVars>>

\* make_device_webrtc_call: the 16 kHz copy of the recording is written to
\* a NamedTemporaryFile for ffmpeg, and the result dict is started.
DvRec16k(p) ==
    /\ pr[p].pc = "dv_rec16k"
    /\ Free(fs) /= {}
    /\ LET n == TempName(fs) IN
         /\ fs' = [fs EXCEPT ![n] = File(p, "rec16k", "-", "data")]
         /\ acc' = Access(p, "create", n)
         /\ pr' = [pr EXCEPT ![p] =
                     [@ EXCEPT !.rec = n, !.pc = "dv_direct",
                               !.res = [type |-> "str", description |-> "str",
                                        reference_audio_b64 |-> "str",
                                        recorded_audio_b64 |-> "str"]]]
    /\ UNCHANGED <<envVars, hist, odgVars>>

\* make_device_webrtc_call: the direct recording score, guarded on its own.
DvDirect(p) ==
    /\ pr[p].pc = "dv_direct"
    /\ LET r == pr[p] IN
         \E ok \in BOOLEAN :
            /\ pr' = [pr EXCEPT ![p] =
                        IF ok THEN ScoreOk(r, "direct") ELSE ScoreGuard(r, "direct")]
            /\ Record(p, [hist[p] EXCEPT !.score["direct"] =
                                           IF ok THEN "ok" ELSE "raised"])
    /\ acc' = {}
    /\ UNCHANGED <<envVars, fs, odgVars>>

----------------------------------------------------------------------------
(* encode_decode_opus and encode_decode_g711 *)

\* The two NamedTemporaryFile(delete=False) of the call: the compressed
\* file (.ogg / mu-law .wav) and the decoded output, both created empty.
EdAlloc(p) ==
    /\ pr[p].pc = "ed_alloc"
    /\ Cardinality(Free(fs)) >= 2
    /\ LET r == pr[p]
           x == r.path
           n1 == TempName(fs)
           f1 == [fs EXCEPT ![n1] = File(p, "comp", x, "empty")]
           n2 == TempName(f1)
       IN /\ fs' = [f1 EXCEPT ![n2] = File(p, "out", x, "empty")]
          /\ acc' = Access(p, "create", n1) \cup AccessIn(f1, p, "create", n2)
          /\ pr' = [pr EXCEPT ![p] =
                      [r EXCEPT !.comp = n1, !.outl = n2, !.pc = "ed_encode"]]
          /\ Record(p, [hist[p] EXCEPT !.edEnd[x] = "running"])
    /\ UNCHANGED <<envVars, odgVars>>

ExcName(o) == IF o = "missing" THEN "FileNotFoundError" ELSE "TimeoutExpired"

\* A faulty variant of StageRaise: the stage is run again after it failed.
StageRetry(r, o) == r

\* subprocess.run raises FileNotFoundError (no executable) or TimeoutExpired;
\* nothing in encode_decode_* catches it, so it leaves the call at once:
\* the unlink of the compressed file is skipped, and in a comparator the
\* path's except branch records it.
StageRaise(r, o) ==
    LET r1 == [r EXCEPT !.comp = 0, !.outl = 0]
    IN IF r.kind \in PipelineKinds
       THEN [r1 EXCEPT !.pc = "done", !.err = ExcName(o)]
       ELSE PathError(r1)

\* The input of the transcode: the 16 kHz temporary copy of the recording
\* in a device call, the reference (no temporary file) otherwise.
EdInput(r) == IF r.kind = "device" THEN {r.rec} ELSE {}

\* subprocess.run([ffmpeg ... input -> compressed], capture_output=True,
\* timeout=30).  The exit status is not looked at: after a non-zero exit
\* the call goes on to the decode, with whatever the tool left in the file
\* (nothing, or data the decoder accepts).  What a killed or missing tool
\* left behind is never read again and is kept as "empty".
EdEncode(p) ==
    /\ pr[p].pc = "ed_encode"
    /\ LET r == pr[p]
           x == r.path
       IN \E o \in Outcomes, c \in Contents :
            LET raises == o \in {"missing", "timeout"}
            IN /\ o = "ok" => c = "data"
               /\ o \in {"missing", "timeout"} => c = "empty"
               /\ fs' = [fs EXCEPT ![r.comp].content = c]
               /\ acc' = IF o = "missing" THEN {}
                         ELSE (UNION {Access(p, "read", n) : n \in EdInput(r)})
                              \cup Access(p, "write", r.comp)
               /\ pr' = [pr EXCEPT ![p] =
                           IF raises THEN StageRaise(r, o)
                           ELSE [r EXCEPT !.pc = "ed_decode"]]
               /\ Record(p, [hist[p] EXCEPT
                     !.inv[x] = Append(@, <<"encode", o, StageTimeout>>),
                     !.edEnd[x] = IF raises THEN ExcName(o) ELSE @])
    /\ UNCHANGED <<envVars, odgVars>>

\* subprocess.run([ffmpeg ... compressed -> output.wav], capture_output=True,
\* timeout=30).  The tool produces audio only from a compressed file that
\* holds data, and exits 0 only when it produced audio.
EdDecode(p) ==
    /\ pr[p].pc = "ed_decode"
    /\ LET r == pr[p]
           x == r.path
       IN \E o \in Outcomes, c \in Contents :
            LET raises == o \in {"missing", "timeout"}
            IN /\ o = "ok" => c = "data"
               /\ c = "data" => fs[r.comp].content = "data"
               /\ o \in {"missing", "timeout"} => c = "empty"
               /\ fs' = [fs EXCEPT ![r.outl].content = c]
               /\ acc' = IF o = "missing" THEN {}
                         ELSE Access(p, "read", r.comp) \cup Access(p, "write", r.outl)
               /\ pr' = [pr EXCEPT ![p] =
                           IF raises THEN StageRaise(r, o)
                           ELSE [r EXCEPT !.pc = "ed_unlink"]]
               /\ Record(p, [hist[p] EXCEPT
                     !.inv[x] = Append(@, <<"decode", o, StageTimeout>>),
                     !.edEnd[x] = IF raises THEN ExcName(o) ELSE @])
    /\ UNCHANGED <<envVars, odgVars>>

\* Path(compressed).unlink(missing_ok=True); return Path(output_wav.name)
EdUnlink(p) ==
    /\ pr[p].pc = "ed_unlink"
    /\ LET r == pr[p]
           x == r.path
           r1 == [r EXCEPT !.comp = 0, !.outl = 0,
                           !.wbp = IF x = "wb" THEN r.outl ELSE @,
                           !.nbp = IF x = "nb" THEN r.outl ELSE @]
       IN /\ fs' = [fs EXCEPT ![r.comp] = NoFile]
          /\ acc' = Access(p, "delete", r.comp)
          /\ pr' = [pr EXCEPT ![p] =
                      IF r.kind \in PipelineKinds THEN [r1 EXCEPT !.pc = "done"]
                      ELSE [r1 EXCEPT !.pc = "p_load"]]
          /\ Record(p, [hist[p] EXCEPT !.edEnd[x] = "returned"])
    /\ UNCHANGED <<envVars, odgVars>>

----------------------------------------------------------------------------
(* One codec path of make_webrtc_call / make_device_webrtc_call *)

PathFile(r) == IF r.path = "wb" THEN r.wbp ELSE r.nbp

\* _load_wav(wb_path), the resample to 16 kHz when the rate differs, the
\* trim: an empty file cannot be loaded; any exception goes to the path's
\* except branch.
PLoad(p) ==
    /\ pr[p].pc = "p_load"
    /\ LET r == pr[p]
           x == r.path
       IN \E o \in {"ok", "load", "resample"} :
            /\ fs[PathFile(r)].content = "empty" => o = "load"
            /\ pr' = [pr EXCEPT ![p] =
                        IF o = "ok" THEN [r EXCEPT !.pc = "p_score"]
                        ELSE PathError(r)]
            /\ Record(p, [hist[p] EXCEPT !.sfail[x] = IF o = "ok" THEN @ ELSE o])
            /\ acc' = Access(p, "read", PathFile(r))
    /\ UNCHANGED <<envVars, fs, odgVars>>

\* pesq_score(16000, ref, deg, "wb"); then the sub-result, the Base64 audio
\* and wb_path.unlink(missing_ok=True), all inside the try: the unlink is
\* reached only when nothing before it raised.
PScore(p) ==
    /\ pr[p].pc = "p_score"
    /\ LET r == pr[p]
           x == r.path
       IN \/ /\ pr' = [pr EXCEPT ![p] = ScoreOk(r, x)]
             /\ Record(p, [hist[p] EXCEPT !.score[x] = "ok"])
             /\ fs' = [fs EXCEPT ![PathFile(r)] = NoFile]
             /\ acc' = Access(p, "delete", PathFile(r))
          \/ /\ pr' = [pr EXCEPT ![p] = ScoreGuard(r, x)]
             /\ Record(p, [hist[p] EXCEPT !.score[x] = "raised", !.sfail[x] = "score"])
             /\ fs' = fs
             /\ acc' = {}
    /\ UNCHANGED <<envVars, odgVars>>

\* make_device_webrtc_call: Path(rec_16k_path.name).unlink(missing_ok=True)
DvCleanup(p) ==
    /\ pr[p].pc = "dv_cleanup"
    /\ fs' = [fs EXCEPT ![pr[p].rec] = NoFile]
    /\ acc' = Access(p, "delete", pr[p].rec)
    /\ pr' = [pr EXCEPT ![p] = [@ EXCEPT !.pc = "fn_returned"]]
    /\ UNCHANGED <<envVars, hist, odgVars>>

\* app.py: the endpoint's finally (unlink of the uploads it stored), then
\* the response: the result, or HTTP 500 for an exception.
EpFinally(p) ==
    /\ pr[p].pc \in {"fn_returned", "fn_raised"}
    /\ LET del == {pr[p].tmp, pr[p].noise} \ {0} IN
         /\ fs' = [n \in Names |-> IF n \in del THEN NoFile ELSE fs[n]]
         /\ acc' = UNION {Access(p, "delete", n) : n \in del}
    /\ pr' = [pr EXCEPT ![p] = [@ EXCEPT !.pc = "done"]]
    /\ UNCHANGED <<envVars, hist, odgVars>>

----------------------------------------------------------------------------

\* The steps of the codec pipeline and of the two comparators.
RunCodec(p) ==
    \/ EpRead(p)
    \/ FnCheck(p)
    \/ FnLoad(p)
    \/ DvRec16k(p)
    \/ DvDirect(p)
    \/ EdAlloc(p)
    \/ EdEncode(p)
    \/ EdDecode(p)
    \/ EdUnlink(p)
    \/ PLoad(p)
    \/ PScore(p)
    \/ DvCleanup(p)
    \/ EpFinally(p)

\* The exception a request ends with.
Raised(r, e) == [r EXCEPT !.pc = "fn_raised", !.err = e]

\* compute_vmaf before its temporary file: the existence checks, ffprobe
\* on both videos and the crop detection; each failure is a VMAFError.
VmProbe(p) ==
    /\ pr[p].pc = "vm_probe"
    /\ \E ok \in BOOLEAN :
         pr' = [pr EXCEPT ![p] = IF ok THEN [@ EXCEPT !.pc = "vm_json"]
                                 ELSE Raised(@, "VMAFError")]
    /\ acc' = Access(p, "read", pr[p].tmp)
    /\ UNCHANGED <<envVars, hist, fs, odgVars>>

\* with NamedTemporaryFile(suffix=".json", delete=False) as tmp:
\*     output_json = Path(tmp.name)
VmJson(p) ==
    /\ pr[p].pc = "vm_json"
    /\ Free(fs) /= {}
    /\ LET n == TempName(fs) IN
         /\ fs' = [fs EXCEPT ![n] = File(p, "json", "-", "empty")]
         /\ acc' = Access(p, "create", n)
         /\ pr' = [pr EXCEPT ![p] = [@ EXCEPT !.outl = n, !.pc = "vm_run"]]
    /\ UNCHANGED <<envVars, hist, odgVars>>

\* subprocess.run(cmd, ..., check=True): a non-zero exit status is turned
\* into VMAFError, a missing ffmpeg is a FileNotFoundError; both leave
\* compute_vmaf before the try whose finally unlinks output_json.  There
\* is no timeout.
VmRun(p) ==
    /\ pr[p].pc = "vm_run"
    /\ \E o \in Outcomes \ {"timeout"}, c \in Contents :
         /\ o = "missing" => c = "empty"
         /\ fs' = [fs EXCEPT ![pr[p].outl].content = c]
         /\ acc' = IF o = "missing" THEN {}
                   ELSE Access(p, "read", pr[p].tmp)
                        \cup Access(p, "write", pr[p].outl)
         /\ pr' = [pr EXCEPT ![p] =
                     CASE o = "ok" -> [@ EXCEPT !.pc = "vm_parse"]
                       [] o = "nonzero" -> Raised(@, "VMAFError")
                       [] OTHER -> Raised(@, "FileNotFoundError")]
    /\ UNCHANGED <<envVars, hist, odgVars>>

\* The JSON is read and the mean taken out of it; finally:
\* output_json.unlink(missing_ok=True).  A log that is empty or lacks the
\* key is a VMAFError.
VmParse(p) ==
    /\ pr[p].pc = "vm_parse"
    /\ \E ok \in BOOLEAN :
         /\ ok => fs[pr[p].outl].content = "data"
         /\ pr' = [pr EXCEPT ![p] =
                     IF ok THEN [@ EXCEPT !.pc = "fn_returned", !.outl = 0,
                                          !.res = [vmaf_score |-> "num"]]
                     ELSE Raised([@ EXCEPT !.outl = 0], "VMAFError")]
    /\ fs' = [fs EXCEPT ![pr[p].outl] = NoFile]
    /\ acc' = Access(p, "read", pr[p].outl) \cup Access(p, "delete", pr[p].outl)
    /\ UNCHANGED <<envVars, hist, odgVars>>

\* compute_iqa(image_path): the three metrics read the image and create no
\* file; whatever one of them raises leaves the endpoint through its
\* finally.
IqScore(p) ==
    /\ pr[p].pc = "iq_score"
    /\ \E ok \in BOOLEAN :
         pr' = [pr EXCEPT ![p] =
                  IF ok THEN [@ EXCEPT !.pc = "fn_returned",
                                       !.res = [brisque |-> "num", niqe |-> "num",
                                                piqe |-> "num"]]
                  ELSE Raised(@, "Exception")]
    /\ acc' = Access(p, "read", pr[p].tmp)
    /\ UNCHANGED <<envVars, hist, fs, odgVars>>

RunVmaf(p) == VmProbe(p) \/ VmJson(p) \/ VmRun(p) \/ VmParse(p)

Init == InitReq /\ InitOdgIdle /\ InitCalcIdle /\ track = TRUE

\* One request at a time.
Next == \/ Start(1) \/ RunCodec(1) \/ EpNoise(1) \/ PqScore(1) \/ Score(1)
        \/ RunVmaf(1) \/ IqScore(1)

Spec == Init /\ [][Next]_vars

\* NumProcs requests, interleaved at every step.
NextConc == \E p \in Procs : StartConc(p) \/ RunCodec(p)

InitConc == InitReq /\ InitOdgIdle /\ InitCalcIdle /\ track = FALSE

SpecConc == InitConc /\ [][NextConc]_vars

----------------------------------------------------------------------------
(* compute_peaq_odg(degraded, reference), noise_audio = None: the numbers *)

\* A float: a number, or NaN.  The ODG is kept in thousandths and the LSD
\* in millionths, the digits the result is rounded to.
NaN == [nan |-> TRUE, v |-> 0]
Num(v) == [nan |-> FALSE, v |-> v]

\* a <= b on floats: false when either side is NaN
Leq(a, b) == ~a.nan /\ ~b.nan /\ a.v <= b.v

Min(a, b) == IF a <= b THEN a ELSE b

\* np.log10(mag + eps) is kept in steps of 1/LogScale of a decade.
LogScale == 2000

\* eps = 1e-10: the value of a cell of magnitude 0 is log10(eps) = -10.
LogSilence == -10 * LogScale

\* The values of a cell: silence, a magnitude of 1, and one step above it.
LogLevels == {LogSilence, 0, 1}

Rates == 1..MaxRate

\* scipy.signal.stft: an empty array for an empty signal, cells for any
\* other; the model keeps one cell per sample.
StftCells(n) == n

RECURSIVE SumSq(_, _)
\* sum((a - b) ** 2), in squares of a step
SumSq(a, b) ==
    IF Len(a) = 0 THEN 0
    ELSE (Head(a) - Head(b)) * (Head(a) - Head(b)) + SumSq(Tail(a), Tail(b))

\* round(n / d) of a quotient of naturals
RoundDiv(n, d) == (n + d \div 2) \div d

\* A faulty variant of LsdRounded: a one-sided distance, which counts only
\* the cells where the first spectrum is above the second.
LsdRoundedOneSided(a, b) ==
    LET over[i \in 0..Len(a)] ==
            IF i = 0 THEN 0
            ELSE over[i - 1]
                 + (IF a[i] > b[i] THEN (a[i] - b[i]) * (a[i] - b[i]) ELSE 0)
    IN IF Len(a) = 0 THEN NaN
       ELSE Num(RoundDiv(over[Len(a)],
                         Len(a) * ((LogScale * LogScale) \div 1000000)))

\* lsd = np.mean((log10(mag_ref + eps) - log10(mag_deg + eps)) ** 2),
\* rounded to 6 places: the mean of an empty array is NaN.
\* In millionths: 1e6 * S / (N * LogScale^2).
LsdRounded(a, b) ==
    IF Len(a) = 0 THEN NaN
    ELSE Num(RoundDiv(SumSq(a, b),
                      Len(a) * ((LogScale * LogScale) \div 1000000)))

\* np.clip(-1.5 * sqrt(lsd), -4.0, 0.0) reaches the floor:
\* 1.5 * sqrt(S / (N * LogScale^2)) >= 4  iff  9 * S >= 64 * N * LogScale^2
Clipped(sq, n) == sq >= (64 * n * LogScale * LogScale + 8) \div 9

\* round(1.5 * sqrt(lsd), 3) in thousandths, below the floor: the m with
\* m - 1/2 <= 1500 * sqrt(S / (N * LogScale^2)) < m + 1/2, that is
\* (2m - 1)^2 <= 9000000 * S / (N * LogScale^2) < (2m + 1)^2
OdgMagnitude(sq, n) ==
    LET q == (9 * sq) \div (n * ((LogScale * LogScale) \div 1000000))
    IN CHOOSE m \in 0..OdgFloor :
          /\ m = 0 \/ (2 * m - 1) * (2 * m - 1) <= q
          /\ m = OdgFloor \/ (2 * m + 1) * (2 * m + 1) > q

\* odg = float(np.clip(-1.5 * np.sqrt(lsd), -4.0, 0.0)); round(odg, 3):
\* sqrt, clip and round all pass NaN on.
OdgRounded(a, b) ==
    IF Len(a) = 0 THEN NaN
    ELSE IF Clipped(SumSq(a, b), Len(a)) THEN Num(-OdgFloor)
    ELSE Num(-OdgMagnitude(SumSq(a, b), Len(a)))

\* The two files are loaded: nRef samples at fsRef, nDeg samples at fsDeg.
InitOdg ==
    /\ refExists = TRUE
    /\ pesqInstalled = TRUE
    /\ fs = [n \in Names |-> NoFile]
    /\ pr = [p \in Procs |-> Idle]
    /\ hist = [p \in Procs |-> NoHist]
    /\ acc = {}
    /\ track = FALSE
    /\ nRef \in 0..MaxLen
    /\ nDeg \in 0..MaxLen
    /\ fsRef \in Rates
    /\ fsDeg \in Rates
    /\ logRef = <<>>
    /\ logDeg = <<>>
    /\ opc = "loaded"
    /\ odgRes = EmptyDict
    /\ InitCalcIdle

reqVars == <<refExists, pesqInstalled, fs, pr, track, hist, acc, calcVars>>

\* if fs_ref != fs_deg: deg = resample(deg, int(len(deg) * fs_ref / fs_deg))
\* scipy's resample raises on an empty signal and on a target of 0 samples.
OdgResample ==
    /\ opc = "loaded"
    /\ LET num == (nDeg * fsRef) \div fsDeg
       IN IF fsRef = fsDeg THEN opc' = "resampled" /\ nDeg' = nDeg
          ELSE IF nDeg = 0 \/ num = 0 THEN opc' = "raised" /\ nDeg' = nDeg
          ELSE opc' = "resampled" /\ nDeg' = num
    /\ UNCHANGED <<reqVars, nRef, fsRef, fsDeg, logRef, logDeg, odgRes>>

\* min_len = min(len(ref), len(deg)); both trimmed to it; the two STFTs
\* and log10(|Z| + eps) of their cells.
OdgStft ==
    /\ opc = "resampled"
    /\ LET min_len == Min(nRef, nDeg)
       IN /\ nRef' = min_len
          /\ nDeg' = min_len
          /\ logRef' \in [1..StftCells(min_len) -> LogLevels]
          /\ logDeg' \in [1..StftCells(min_len) -> LogLevels]
    /\ opc' = "stft"
    /\ UNCHANGED <<reqVars, fsRef, fsDeg, odgRes>>

\* The LSD, the ODG, and the result dict that is returned.
OdgScore ==
    /\ opc = "stft"
    /\ odgRes' = [odg_score |-> OdgRounded(logRef, logDeg),
                  lsd |-> LsdRounded(logRef, logDeg),
                  details |-> "dict"]
    /\ opc' = "returned"
    /\ UNCHANGED <<reqVars, nRef, nDeg, fsRef, fsDeg, logRef, logDeg>>

NextOdg == OdgResample \/ OdgStft \/ OdgScore

SpecOdg == InitOdg /\ [][NextOdg]_vars

----------------------------------------------------------------------------
(* Buffer lengths on the way to the LSD and to pesq_score *)

sysVars == <<refExists, pesqInstalled, fs, pr, track, hist, acc>>

AlignFns == {"peaq", "pesq", "compare", "call", "device"}

\* A faulty variant of Slice: the buffer is handed on uncut.
SliceMissing(n, m) == n

\* x[:m]
Slice(n, m) == Min(n, m)

\* A faulty variant of ResampleLen: the length is rounded to the nearest
\* integer instead of truncated.
ResampleLenNearest(n, orig, target) == (2 * n * target + orig) \div (2 * orig)

\* num = int(len(samples) * target_sr / orig_sr)
ResampleLen(n, orig, target) == (n * target) \div orig

\* scipy.signal.resample(samples, num) returns num samples; its FFT raises
\* ValueError on an empty signal and on num = 0.
ResampleRaises(n, orig, target) == n = 0 \/ ResampleLen(n, orig, target) = 0

\* _resample_to(samples, orig_sr, target_sr), and the inline
\* `if sr != 16000: num = int(...); x = resample(x, num)` of the other
\* modules: the outcome, with the call of resample that was made (if any).
ResampleTo(n, orig, target) ==
    IF orig = target THEN [raised |-> FALSE, len |-> n, calls |-> {}]
    ELSE IF ResampleRaises(n, orig, target)
    THEN [raised |-> TRUE, len |-> 0,
          calls |-> {[n |-> n, orig |-> orig, target |-> target,
                      raised |-> TRUE, out |-> 0]}]
    ELSE [raised |-> FALSE, len |-> ResampleLen(n, orig, target),
          calls |-> {[n |-> n, orig |-> orig, target |-> target,
                      raised |-> FALSE,
                      out |-> ResampleLen(n, orig, target)]}]

\* The two buffers handed to the LSD or to pesq_score for slot s: a of
\* length la and b of length lb, both cut to m samples.
Handed(s, la, lb, m) ==
    [slot |-> s, a |-> Slice(la, m), b |-> Slice(lb, m), la |-> la, lb |-> lb]

\* The two files are loaded: ref samples at srRef (the reference), deg
\* samples at srDeg (the upload; the simulation and the codec call have
\* none).
InitAlign ==
    /\ InitReq /\ refExists /\ pesqInstalled /\ track = FALSE
    /\ InitOdgIdle
    /\ pcm = CalcOff /\ ld = CalcOff /\ ss = CalcOff /\ gn = CalcOff
    /\ \E f \in AlignFns, n1 \in 0..MaxLen, r1 \in Rates :
         \E n2 \in (IF f \in {"compare", "call"} THEN {0} ELSE 0..MaxLen),
            r2 \in (IF f \in {"compare", "call"} THEN {Sr16k} ELSE Rates) :
           al = [pc |-> "loaded", fn |-> f, ref |-> n1, srRef |-> r1,
                 deg |-> n2, srDeg |-> r2, base |-> 0,
                 handed |-> {}, rs |-> {}]

notAl == <<sysVars, odgVars, pcm, ld, ss, gn>>

\* The resampling each function does right after its loads.
AlResample ==
    /\ al.pc = "loaded"
    /\ LET f == al.fn
           ref16 == IF f = "peaq"
                    THEN [raised |-> FALSE, len |-> al.ref, calls |-> {}]
                    ELSE ResampleTo(al.ref, al.srRef, Sr16k)
           ref8 == IF f = "compare" /\ ~ref16.raised
                   THEN ResampleTo(al.ref, al.srRef, Sr8k)
                   ELSE [raised |-> FALSE, len |-> 0, calls |-> {}]
           deg16 == CASE ref16.raised \/ ref8.raised \/ f = "call" ->
                           [raised |-> FALSE, len |-> 0, calls |-> {}]
                      [] f = "peaq" -> ResampleTo(al.deg, al.srDeg, al.srRef)
                      [] f = "compare" -> ResampleTo(ref8.len, Sr8k, Sr16k)
                      [] OTHER -> ResampleTo(al.deg, al.srDeg, Sr16k)
           raised == ref16.raised \/ ref8.raised \/ deg16.raised
       IN al' = [al EXCEPT !.pc = IF raised THEN "raised" ELSE "resampled",
                           !.ref = IF raised THEN @ ELSE ref16.len,
                           !.deg = IF raised THEN @ ELSE deg16.len,
                           !.rs = ref16.calls \cup ref8.calls \cup deg16.calls]
    /\ UNCHANGED notAl

\* min_len = min(len(a), len(b)), the two slices, and the score calls
\* that do not go through the codec pipeline.
AlTrim ==
    /\ al.pc = "resampled"
    /\ LET f == al.fn
           m == Min(al.ref, al.deg)
       IN al' =
            CASE f = "peaq" ->
                   [al EXCEPT !.pc = "done",
                              !.handed = {Handed("lsd", al.ref, al.deg, m)}]
              [] f = "pesq" ->
                   [al EXCEPT !.pc = "done",
                              !.handed = {Handed("wb", al.ref, al.deg, m),
                                          Handed("nb", al.ref, al.deg, m)}]
              [] f = "compare" ->
                   [al EXCEPT !.pc = "done",
                              !.handed = {Handed("wb", al.ref, al.ref, al.ref),
                                          Handed("nb", al.ref, al.deg, m)}]
              [] f = "call" ->
                   [al EXCEPT !.pc = "path_wb", !.base = al.ref]
              [] OTHER ->
                   [al EXCEPT !.pc = "path_wb", !.base = m,
                              !.handed = {Handed("direct", al.ref, al.deg, m)}]
    /\ UNCHANGED notAl

AlignNext(pc) == IF pc = "path_nb" THEN "done" ELSE "path_nb"

\* One codec path: the decoded WAV (n samples at rate r) is loaded,
\* resampled to 16 kHz and cut; an exception ends the path only.
AlPath ==
    /\ al.pc \in {"path_wb", "path_nb"}
    /\ \E n \in 0..MaxLen, r \in Rates :
         LET x == IF al.pc = "path_nb" THEN "nb" ELSE "wb"
             dec == ResampleTo(n, r, Sr16k)
             m == IF al.fn = "call" THEN Min(al.ref, dec.len)
                  ELSE Min(al.base, dec.len)
         IN al' = [al EXCEPT
                     !.pc = AlignNext(al.pc),
                     !.rs = @ \cup dec.calls,
                     !.handed = IF dec.raised THEN @
                                ELSE @ \cup {Handed(x, al.ref, dec.len, m)}]
    /\ UNCHANGED notAl

NextAlign == AlResample \/ AlTrim \/ AlPath

SpecAlign == InitAlign /\ [][NextAlign]_vars

----------------------------------------------------------------------------
(* One 16-bit sample: _load_wav, a writer, _load_wav *)

\* A float sample is kept as the fraction num / den.

\* np.int16 -> float64: samples / 32768.0
LoadSample(k) == [num |-> k, den |-> LoadScale]

\* astype(np.int16) of a float num / den: truncation toward zero
TruncDiv(num, den) ==
    IF num >= 0 THEN num \div den ELSE -((-num) \div den)

\* np.clip(x, lo, hi)
Clip(x, lo, hi) == IF x < lo THEN lo ELSE IF x > hi THEN hi ELSE x

\* The three float -> int16 conversions:
\*   peaq._write_wav_bytes:       (np.clip(s, -1.0, 1.0) * 32767).astype(int16)
\*   codec_call._write_wav_b64:   np.clip(s * 32767, -32768, 32767).astype(int16)
\*   _float_to_int16 (pesq_score, codec_call):
\*                                np.clip(s * 32768.0, -32768, 32767).astype(int16)
Writers == {"peaq_write", "codec_write", "float_to_int16"}

\* A faulty variant of ToInt16: the sample is scaled to 15 bits.
ToInt16HalfScale(wr, x) == TruncDiv(x.num * (LoadScale \div 2), x.den)

ToInt16(wr, x) ==
    CASE wr = "peaq_write" ->
           TruncDiv(Clip(x.num, -x.den, x.den) * WriteScale, x.den)
      [] wr = "codec_write" ->
           TruncDiv(Clip(x.num * WriteScale, Int16Min * x.den,
                         Int16Max * x.den), x.den)
      [] OTHER ->
           TruncDiv(Clip(x.num * LoadScale, Int16Min * x.den,
                         Int16Max * x.den), x.den)

\* A 16-bit mono file holding the sample k is read by _load_wav.
InitPcm ==
    /\ InitReq /\ refExists /\ pesqInstalled /\ track = FALSE
    /\ InitOdgIdle
    /\ al = CalcOff /\ ld = CalcOff /\ ss = CalcOff /\ gn = CalcOff
    /\ \E k \in Int16Min..Int16Max, wr \in Writers :
         pcm = [pc |-> "loaded", k |-> k, wr |-> wr,
                x |-> LoadSample(k), w |-> 0, y |-> LoadSample(0)]

notPcm == <<sysVars, odgVars, al, ld, ss, gn>>

\* The sample is written back as 16-bit PCM.
PcmWrite ==
    /\ pcm.pc = "loaded"
    /\ pcm' = [pcm EXCEPT !.pc = "written", !.w = ToInt16(pcm.wr, pcm.x)]
    /\ UNCHANGED notPcm

\* The written file is read again.
PcmReload ==
    /\ pcm.pc = "written"
    /\ pcm' = [pcm EXCEPT !.pc = "reloaded", !.y = LoadSample(pcm.w)]
    /\ UNCHANGED notPcm

NextPcm == PcmWrite \/ PcmReload

SpecPcm == InitPcm /\ [][NextPcm]_vars

----------------------------------------------------------------------------
(* The three WAV loaders: peaq._load_wav, pesq_score._load_wav,
   codec_call._load_wav *)

Loaders == {"peaq", "pesq", "codec"}

\* The file a loader is given:
\*   missing     no file at the path
\*   empty       a file of 0 bytes
\*   cut_header  a RIFF file that ends inside its header chunks
\*   not_riff    bytes that do not start with a RIFF/WAVE header
\*   not_pcm     a WAVE file whose format is not PCM
\*   cut_data    a PCM file whose data ends inside a sample
\*   pcm         a well-formed PCM file
FileKinds == {"missing", "empty", "cut_header", "not_riff", "not_pcm",
              "cut_data", "pcm"}
SampleWidths == 1..4
Channels == {1, 2}

\* The exception class of the loader's module; codec_call defines none.
ModuleError(l) ==
    CASE l = "peaq" -> "PEAQError"
      [] l = "pesq" -> "PESQError"
      [] OTHER -> "none"

\* What wave.open(path, "r") and the reads inside the with block raise:
\* EOFError on a file that ends inside the header, wave.Error on bytes that
\* are no PCM WAVE file.
WaveOpenError(file) ==
    CASE file = "missing" -> "FileNotFoundError"
      [] file \in {"empty", "cut_header"} -> "EOFError"
      [] file \in {"not_riff", "not_pcm"} -> "wave.Error"
      [] OTHER -> "none"

\* except wave.Error as e: raise PEAQError(...) in peaq and pesq_score,
\* which also test path.exists() first; codec_call has neither.
Wrapped(l, e) ==
    IF l \in {"peaq", "pesq"} /\ e \in {"FileNotFoundError", "wave.Error"}
    THEN ModuleError(l) ELSE e

InitLoad ==
    /\ InitReq /\ refExists /\ pesqInstalled /\ track = FALSE
    /\ InitOdgIdle
    /\ al = CalcOff /\ pcm = CalcOff /\ ss = CalcOff /\ gn = CalcOff
    /\ \E l \in Loaders, f \in FileKinds :
         \E sw \in (IF f \in {"pcm", "cut_data"} THEN SampleWidths ELSE {2}),
            ch \in (IF f \in {"pcm", "cut_data"} THEN Channels ELSE {1}) :
           ld = [pc |-> "called", loader |-> l, file |-> f,
                 sw |-> sw, ch |-> ch, exc |-> "none"]

notLd == <<sysVars, odgVars, al, pcm, ss, gn>>

\* path.exists() (peaq, pesq_score) and the with wave.open(...) block.
LdOpen ==
    /\ ld.pc = "called"
    /\ LET e == Wrapped(ld.loader, WaveOpenError(ld.file))
       IN ld' = IF e = "none" THEN [ld EXCEPT !.pc = "opened"]
                ELSE [ld EXCEPT !.pc = "raised", !.exc = e]
    /\ UNCHANGED notLd

\* The sample width branch (np.frombuffer raises ValueError on a buffer
\* that ends inside a sample) and the conversion to mono.
LdConvert ==
    /\ ld.pc = "opened"
    /\ ld' = IF ld.sw \notin {2, 4}
             THEN [ld EXCEPT !.pc = "raised",
                             !.exc = IF ld.loader = "codec" THEN "ValueError"
                                     ELSE ModuleError(ld.loader)]
             ELSE IF ld.file = "cut_data"
             THEN [ld EXCEPT !.pc = "raised", !.exc = "ValueError"]
             ELSE [ld EXCEPT !.pc = "returned"]
    /\ UNCHANGED notLd

NextLoad == LdOpen \/ LdConvert

SpecLoad == InitLoad /\ [][NextLoad]_vars

----------------------------------------------------------------------------
(* spectral_subtract(degraded, noise, sr): the shapes of its arrays *)

NPerSeg == 1024

\* hop = nperseg // 4
Hop == NPerSeg \div 4

\* noverlap = nperseg - hop
NOverlap == NPerSeg - Hop

\* Signal lengths: around every multiple of the hop up to MaxLen + 2 hops.
SubLens == {k * Hop + d : k \in 0..(MaxLen + 2), d \in {-1, 0, 1}} \cap Nat

NoShape == [dims |-> 0, bins |-> 0, frames |-> 0]

\* scipy.signal.stft(x, sr, nperseg=nperseg, noverlap=nperseg - hop) of a
\* signal of n samples.  An empty signal gives empty arrays of shape (0,).
\* A window longer than the signal is cut to the signal's length (with a
\* warning), and an overlap that is not below the window raises ValueError.
\* The signal is extended by half a window on both sides and padded with
\* zeros to a whole number of segments.
Stft(n) ==
    IF n = 0 THEN [exc |-> "none", shape |-> [dims |-> 1, bins |-> 0, frames |-> 0]]
    ELSE LET seg == Min(NPerSeg, n)
             step == seg - NOverlap
             ext == n + 2 * (seg \div 2)
         IN IF NOverlap >= seg THEN [exc |-> "ValueError", shape |-> NoShape]
            ELSE LET nadd == ((step - ((ext - seg) % step)) % step) % seg
                 IN [exc |-> "none",
                     shape |-> [dims |-> 2,
                                bins |-> seg \div 2 + 1,
                                frames |-> (ext + nadd - seg) \div step + 1]]

\* np.mean(np.abs(Z_noise) ** 2, axis=1, keepdims=True): one value per bin;
\* axis 1 of a one-dimensional array is out of bounds.
NoisePower(shape) ==
    IF shape.dims < 2 THEN [exc |-> "AxisError", shape |-> NoShape]
    ELSE [exc |-> "none", shape |-> [shape EXCEPT !.frames = 1]]

\* Broadcasting of deg_power against noise_power (bins, 1): the bin counts
\* must agree unless one of them is 1; the empty array of shape (0,)
\* broadcasts to (bins, 0).
GainShape(deg, np) ==
    IF deg.dims = 1
    THEN [exc |-> "none", shape |-> [dims |-> 2, bins |-> np.bins, frames |-> 0]]
    ELSE IF deg.bins = np.bins \/ np.bins = 1
    THEN [exc |-> "none", shape |-> deg]
    ELSE IF deg.bins = 1
    THEN [exc |-> "none", shape |-> [deg EXCEPT !.bins = np.bins]]
    ELSE [exc |-> "ValueError", shape |-> NoShape]

\* scipy.signal.istft(Z_clean, sr, nperseg=nperseg, noverlap=nperseg - hop):
\* the segments are the inverse FFT of length 2 * (bins - 1) cut to nperseg
\* rows, each multiplied by a window of nperseg points (shapes that differ
\* raise ValueError), overlap-added into nperseg + (frames - 1) * hop
\* samples, of which half a window is removed on both sides.  With no
\* frame at all the inverse FFT of the empty array either raises or
\* leaves nothing.
Istft(shape) ==
    LET nfft == 2 * (shape.bins - 1)
    IN IF shape.frames = 0
       THEN {[exc |-> "ValueError", len |-> 0], [exc |-> "none", len |-> 0]}
       ELSE IF Min(nfft, NPerSeg) /= NPerSeg
       THEN {[exc |-> "ValueError", len |-> 0]}
       ELSE {[exc |-> "none",
              len |-> NPerSeg + (shape.frames - 1) * Hop - 2 * (NPerSeg \div 2)]}

InitSub ==
    /\ InitReq /\ refExists /\ pesqInstalled /\ track = FALSE
    /\ InitOdgIdle
    /\ al = CalcOff /\ pcm = CalcOff /\ ld = CalcOff /\ gn = CalcOff
    /\ \E n \in SubLens, m \in SubLens :
         ss = [pc |-> "called", n |-> n, m |-> m, deg |-> NoShape,
               noise |-> NoShape, gain |-> NoShape, cleaned |-> 0,
               out |-> 0, exc |-> "none"]

notSs == <<sysVars, odgVars, al, pcm, ld, gn>>

SsRaise(e) == [ss EXCEPT !.pc = "raised", !.exc = e]

\* f_deg, t_deg, Z_deg = stft(degraded, ...)
SsStftDeg ==
    /\ ss.pc = "called"
    /\ LET r == Stft(ss.n)
       IN ss' = IF r.exc /= "none" THEN SsRaise(r.exc)
                ELSE [ss EXCEPT !.pc = "deg", !.deg = r.shape]
    /\ UNCHANGED notSs

\* _, _, Z_noise = stft(noise, ...); noise_power = np.mean(..., axis=1)
SsStftNoise ==
    /\ ss.pc = "deg"
    /\ LET r == Stft(ss.m)
           q == NoisePower(r.shape)
       IN ss' = IF r.exc /= "none" THEN SsRaise(r.exc)
                ELSE IF q.exc /= "none" THEN SsRaise(q.exc)
                ELSE [ss EXCEPT !.pc = "noise", !.noise = q.shape]
    /\ UNCHANGED notSs

\* snr, gain, the smoothing of every column, clean_mag and Z_clean
SsGain ==
    /\ ss.pc = "noise"
    /\ LET r == GainShape(ss.deg, ss.noise)
       IN ss' = IF r.exc /= "none" THEN SsRaise(r.exc)
                ELSE [ss EXCEPT !.pc = "gain", !.gain = r.shape]
    /\ UNCHANGED notSs

\* _, cleaned = istft(Z_clean, ...)
SsIstft ==
    /\ ss.pc = "gain"
    /\ \E r \in Istft(ss.gain) :
         ss' = IF r.exc /= "none" THEN SsRaise(r.exc)
               ELSE [ss EXCEPT !.pc = "istft", !.cleaned = r.len]
    /\ UNCHANGED notSs

\* cleaned = cleaned[:len(degraded)]; peak = np.max(np.abs(cleaned)), which
\* raises ValueError on an empty array; return cleaned
SsTrim ==
    /\ ss.pc = "istft"
    /\ LET trimmed == Slice(ss.cleaned, ss.n)
       IN ss' = IF trimmed = 0 THEN SsRaise("ValueError")
                ELSE [ss EXCEPT !.pc = "returned", !.out = trimmed]
    /\ UNCHANGED notSs

NextSub == SsStftDeg \/ SsStftNoise \/ SsGain \/ SsIstft \/ SsTrim

SpecSub == InitSub /\ [][NextSub]_vars

----------------------------------------------------------------------------
(* spectral_subtract: the gain of one time frame, bin by bin *)

\* A float of the gain computation: a quotient of integers, or -inf.
Rat(n, d) == [inf |-> FALSE, num |-> n, den |-> d]
NegInf == [inf |-> TRUE, num |-> -1, den |-> 1]

RatLeq(a, b) == a.num * b.den <= b.num * a.den

RECURSIVE Gcd(_, _)
Gcd(a, b) == IF b = 0 THEN a ELSE Gcd(b, a % b)

\* The same quotient in lowest terms.
Reduced(n, d) == LET g == Gcd(IF n < 0 THEN -n ELSE n, d)
                 IN Rat(n \div g, d \div g)

\* oversubtraction: float = 2.0
Oversubtraction == 2

\* 10.0 ** (gain_floor_db / 20.0) with gain_floor_db = -15.0 is 0.1778...,
\* kept as FloorNum / FloorDen = 0.178.
FloorNum == 89
FloorDen == 500
GainFloor == Rat(FloorNum, FloorDen)

\* Powers are counted in units of the 1e-10 that is added to the noise.
DegPowers == {0, 2, 5, 40}
NoisePowers == {0, 1}

\* The bins of a frame.
GainBins == 1..MaxLen

\* snr = deg_power / (oversubtraction * noise_power + 1e-10)
Snr(p, q) == Rat(p, Oversubtraction * q + 1)

\* 1.0 - 1.0 / snr: 1 / 0.0 is inf in numpy, and 1 - inf is -inf.
OneMinusInv(s) == IF s.num = 0 THEN NegInf ELSE Reduced(s.num - s.den, s.num)

\* np.maximum(a, b)
Maximum(a, b) == IF a.inf THEN b ELSE IF b.inf THEN a
                 ELSE IF RatLeq(a, b) THEN b ELSE a

\* A faulty variant of Gain: the floor is not applied.
GainUnfloored(s) == OneMinusInv(s)

\* gain = np.maximum(1.0 - 1.0 / snr, 10.0 ** (gain_floor_db / 20.0))
Gain(s) == Maximum(OneMinusInv(s), GainFloor)

\* The mean of three values.
Mean3(a, b, c) ==
    IF a.inf \/ b.inf \/ c.inf THEN NegInf
    ELSE Reduced(a.num * b.den * c.den + b.num * a.den * c.den
                    + c.num * a.den * b.den,
                 3 * a.den * b.den * c.den)

\* uniform_filter1d(column, size=3), mode 'reflect': the mean of a bin and
\* its two neighbours, the edge bin standing in for the neighbour it lacks.
UniformFilter1d(g) ==
    [i \in 1..Len(g) |->
        Mean3(g[IF i = 1 THEN 1 ELSE i - 1], g[i],
              g[IF i = Len(g) THEN i ELSE i + 1])]

InitGain ==
    /\ InitReq /\ refExists /\ pesqInstalled /\ track = FALSE
    /\ InitOdgIdle
    /\ al = CalcOff /\ pcm = CalcOff /\ ld = CalcOff /\ ss = CalcOff
    /\ \E dp \in [GainBins -> DegPowers], np \in [GainBins -> NoisePowers] :
         gn = [pc |-> "powers", deg_power |-> dp, noise_power |-> np,
               snr |-> <<>>, gain |-> <<>>]

notGn == <<sysVars, odgVars, al, pcm, ld, ss>>

\* snr = deg_power / (oversubtraction * noise_power + 1e-10)
GnSnr ==
    /\ gn.pc = "powers"
    /\ gn' = [gn EXCEPT !.pc = "snr",
                        !.snr = [i \in GainBins |->
                                    Snr(gn.deg_power[i], gn.noise_power[i])]]
    /\ UNCHANGED notGn

\* gain = np.maximum(1.0 - 1.0 / snr, floor)
GnMax ==
    /\ gn.pc = "snr"
    /\ gn' = [gn EXCEPT !.pc = "max",
                        !.gain = [i \in GainBins |-> Gain(gn.snr[i])]]
    /\ UNCHANGED notGn

\* gain[:, col] = uniform_filter1d(gain[:, col], size=3)
GnSmooth ==
    /\ gn.pc = "max"
    /\ gn' = [gn EXCEPT !.pc = "smoothed", !.gain = UniformFilter1d(gn.gain)]
    /\ UNCHANGED notGn

NextGain == GnSnr \/ GnMax \/ GnSmooth

SpecGain == InitGain /\ [][NextGain]_vars

----------------------------------------------------------------------------
(* Vocabulary of the properties *)

\* The pipeline call of path x of request p has returned or raised.
EdEnded(p, x) == hist[p].edEnd[x] \notin {"none", "running"}

\* An external stage of path x of request p failed: the tool was missing,
\* timed out, or exited with a non-zero status.
StageFailed(p, x) ==
    \E i \in DOMAIN hist[p].inv[x] : hist[p].inv[x][i][2] /= "ok"

Invocations(p, x, stage) ==
    {i \in DOMAIN hist[p].inv[x] : hist[p].inv[x][i][1] = stage}

\* The comparator of request p has returned its result dict.
Returned(p) == pr[p].pc \in {"fn_returned", "done"} /\ pr[p].err = "none"

TempFiles(p, role, x) ==
    {n \in Names : fs[n].owner = p /\ fs[n].role = role /\ fs[n].path = x}

SubResult(p, s) == IF SubName(s) \in DOMAIN pr[p].sub
                   THEN pr[p].sub[SubName(s)] ELSE EmptyDict

----------------------------------------------------------------------------
(* C1 *)

\* C1: once a call of encode_decode_opus / encode_decode_g711 has returned
\* or raised, the compressed file it created no longer exists.
C1_IntermediateDeleted ==
    \A p \in Procs, x \in Paths :
        EdEnded(p, x) => TempFiles(p, "comp", x) = {}

(* C2 *)

\* C2: when a comparator returns, every decoded WAV that encode_decode_*
\* returned to it has been deleted, whether or not the path's load, resample
\* or score raised.
C2_DecodedDeleted ==
    \A p \in Procs, x \in Paths :
        (pr[p].kind \in ComparatorKinds /\ Returned(p)
            /\ hist[p].edEnd[x] = "returned")
        => TempFiles(p, "out", x) = {}

(* C3 *)

\* C3: a pipeline call in which a stage failed (missing tool, timeout,
\* non-zero exit) ends by raising CodecPipelineError; it never returns a
\* path.
C3_FailureRaisesPipelineError ==
    \A p \in Procs, x \in Paths :
        (EdEnded(p, x) /\ StageFailed(p, x))
        => hist[p].edEnd[x] = "CodecPipelineError"

(* C4 *)

\* A step of path x failed: an external stage, the load, the resample or
\* the score.
PathFailed(p, x) == StageFailed(p, x) \/ hist[p].sfail[x] /= "none"

\* C4: in the result of a comparator, a path in which any step failed
\* holds an error field, and both paths were executed and are reported.
C4_PathFailureIsolated ==
    \A p \in Procs :
        (pr[p].kind \in ComparatorKinds /\ Returned(p))
        => \A x \in Paths :
              /\ hist[p].edEnd[x] /= "none"
              /\ SubName(x) \in DOMAIN pr[p].sub
              /\ PathFailed(p, x) => "error" \in DOMAIN SubResult(p, x)

(* C5 *)

\* C5: a comparator result carries no numeric pesq_score for a path whose
\* encode or decode stage failed.
C5_NoScoreAfterFailedStage ==
    \A p \in Procs, x \in Paths :
        (pr[p].kind \in ComparatorKinds /\ Returned(p) /\ StageFailed(p, x))
        => Get(SubResult(p, x), "pesq_score") /= "num"

(* C6 *)

\* The score field of slot s in the result of request p: "absent" when the
\* result has no such key.
ScoreField(p, s) ==
    IF pr[p].kind = "pesq"
    THEN IF ("pesq_" \o s) \in DOMAIN pr[p].res
         THEN pr[p].res["pesq_" \o s] ELSE "absent"
    ELSE IF "pesq_score" \in DOMAIN SubResult(p, s)
         THEN SubResult(p, s).pesq_score ELSE "absent"

\* The error string attached for slot s.
ScoreErrorAttached(p, s) ==
    IF pr[p].kind = "pesq"
    THEN ("pesq_" \o s \o "_error") \in DOMAIN pr[p].res
    ELSE "error" \in DOMAIN SubResult(p, s)

\* The score calls request p makes: both modes in compute_pesq and
\* compute_pesq_comparison; in the comparators the direct score (device
\* call) and the score of every path whose transcode, load and resample
\* went through.
ScoreDue(p, s) ==
    CASE pr[p].kind \in {"pesq", "compare"} -> s \in Paths
      [] pr[p].kind = "device" /\ s = "direct" -> TRUE
      [] pr[p].kind \in ComparatorKinds /\ s \in Paths ->
            hist[p].edEnd[s] = "returned"
            /\ hist[p].sfail[s] \notin {"load", "resample"}
      [] OTHER -> FALSE

\* C6 as stated: whenever a call of pesq_score raised, the score field of
\* that call is present in the result with the value null, and an error
\* string is attached to it.
C6_NullScoreField ==
    \A p \in Procs, s \in Slots :
        hist[p].score[s] = "raised"
        => ScoreField(p, s) = "null" /\ ScoreErrorAttached(p, s)

\* C6 amended: every call of pesq_score is guarded on its own.  When it
\* raises, an error string is attached for that score and the result holds
\* no number for it: in compute_pesq the field is null, in the comparisons
\* the sub-result is {"error": ...} and has no pesq_score key.  The
\* exception does not leave the function, and every other score call of
\* the request is still made.
C6_ScoreCallsGuarded ==
    \A p \in Procs :
        /\ \A s \in Slots :
              hist[p].score[s] = "raised"
              => /\ ScoreErrorAttached(p, s)
                 /\ ScoreField(p, s) =
                       (IF pr[p].kind = "pesq" THEN "null" ELSE "absent")
                 /\ pr[p].pc /= "fn_raised"
        /\ Returned(p)
              => \A s \in Slots : ScoreDue(p, s) => hist[p].score[s] /= "none"

\* compute_pesq returned after its wideband score raised and its
\* narrowband score was computed.
C6_Witness ==
    /\ pr[1].kind = "pesq"
    /\ Returned(1)
    /\ hist[1].score["wb"] = "raised"
    /\ hist[1].score["nb"] = "ok"
    /\ ScoreField(1, "wb") = "null"
    /\ ScoreField(1, "nb") = "num"

(* C7 *)

\* The requests that score against the reference file.
ScoringKinds == {"peaq", "pesq", "call", "device"}

\* C7 as stated: with the reference missing, the request fails with the
\* not-found error and no temporary file of the request exists when the
\* error is raised.
C7_NoTempFileAtNotFound ==
    \A p \in Procs :
        (~refExists /\ pr[p].kind \in ScoringKinds /\ pr[p].pc = "fn_raised")
        => pr[p].err = "ref_not_found" /\ FilesOf(p) = {}

\* C7 amended: with the reference missing, the scoring function never gets
\* past its checks: it raises the not-found error (or the error of the
\* ffmpeg / pesq availability check placed before it) before it loads or
\* creates anything.  The only temporary files of the request are the
\* uploads the endpoint stored before calling the function, and they are
\* gone when the request is done.
C7_NotFoundBeforeFunctionTemps ==
    \A p \in Procs :
        (~refExists /\ pr[p].kind \in ScoringKinds)
        => /\ pr[p].pc \in {"ep_read", "ep_noise", "fn_check", "fn_raised", "done"}
           /\ pr[p].pc = "fn_raised"
                 => pr[p].err \in {"ref_not_found", "ffmpeg_not_found",
                                   "pesq_not_installed"}
           /\ (pr[p].pc = "fn_raised" /\ pr[p].kind = "peaq")
                 => pr[p].err = "ref_not_found"
           /\ \A n \in FilesOf(p) : fs[n].role \in {"upload", "noise"}
           /\ pr[p].pc = "done" => FilesOf(p) = {}

\* compute_peaq_odg raised the not-found error while the stored upload of
\* the request is on disk.
C7_Witness ==
    /\ ~refExists
    /\ pr[1].kind = "peaq"
    /\ pr[1].pc = "fn_raised"
    /\ pr[1].err = "ref_not_found"
    /\ pr[1].tmp \in FilesOf(1)

(* C8 *)

\* The temporary file names call p has created and will still read, write
\* or delete: the stored uploads until the endpoint's finally, the 16 kHz
\* copy until the clean-up, the two files of a running pipeline call, and
\* the decoded WAV a pipeline call returned until its path is over.
Held(p) ==
    LET r == pr[p]
    IN ((IF r.pc \notin {"idle", "done"} THEN {r.tmp, r.noise} ELSE {})
        \cup (IF r.pc \notin {"idle", "done", "fn_returned", "fn_raised"}
              THEN {r.rec} ELSE {})
        \cup {r.comp, r.outl}
        \cup (IF r.pc \in {"p_load", "p_score"} THEN {PathFile(r)} ELSE {}))
       \ {0}

\* C8: in every interleaving of the calls, no step of a call creates over,
\* reads, writes or deletes a file of another call, and every name a call
\* holds is a file of that call alone.
C8_TempFilesIsolated ==
    /\ acc = {}
    /\ \A p \in Procs : \A n \in Held(p) : fs[n].owner = p
    /\ \A p, q \in Procs : p /= q => Held(p) \cap Held(q) = {}

\* A comparator about to score a decoded WAV while a pipeline call of
\* another request is between its encode and its decode.
C8_Witness ==
    /\ pr[1].kind \in ComparatorKinds
    /\ pr[1].pc = "p_score"
    /\ pr[2].pc = "ed_decode"
    /\ Held(1) /= {}
    /\ Cardinality(Held(2)) = 2
    /\ \E n \in Held(1), m \in Held(2) : m < n

(* C9 *)

\* C9: in one pipeline call the tool is invoked at most once for the
\* encode and at most once for the decode, the decode after the encode,
\* each with the 30 second timeout; an invocation that timed out is the
\* last one of the call, and the call has failed.
C9_StagesInvokedOnce ==
    \A p \in Procs, x \in Paths :
        LET inv == hist[p].inv[x]
        IN /\ Cardinality(Invocations(p, x, "encode")) <= 1
           /\ Cardinality(Invocations(p, x, "decode")) <= 1
           /\ Len(inv) = 2 => inv[1][1] = "encode" /\ inv[2][1] = "decode"
           /\ \A i \in DOMAIN inv :
                 /\ inv[i][3] = 30
                 /\ inv[i][2] = "timeout"
                       => /\ i = Len(inv)
                          /\ hist[p].edEnd[x] = "TimeoutExpired"

\* A pipeline call whose encode ran and whose decode timed out.
C9_Witness ==
    \E x \in Paths :
        /\ Len(hist[1].inv[x]) = 2
        /\ hist[1].inv[x][1][2] = "ok"
        /\ hist[1].inv[x][2] = <<"decode", "timeout", StageTimeout>>
        /\ EdEnded(1, x)

(* C10 *)

\* C10: the odg_score of every result compute_peaq_odg returns satisfies
\* -4.0 <= odg_score <= 0.0.
C10_OdgScoreBounded ==
    opc = "returned"
    => /\ Leq(Num(-4000), odgRes.odg_score)
       /\ Leq(odgRes.odg_score, Num(0))

(* C11 *)

\* x == 0.0 on floats (false for NaN, true for -0.0)
IsZero(x) == ~x.nan /\ x.v = 0

\* C11: in every result compute_peaq_odg returns, the reported odg_score
\* is 0.0 exactly when the reported lsd is 0.0.
C11_OdgZeroIffLsdZero ==
    opc = "returned" => (IsZero(odgRes.odg_score) <=> IsZero(odgRes.lsd))

(* C12 *)

\* C12 as stated: the two buffers handed to a distance or score
\* computation have the same length, the minimum of the lengths of the two
\* buffers that are compared.
C12_HandedMinOfTwo ==
    \A h \in al.handed : h.a = h.b /\ h.a = Min(h.la, h.lb)

\* C12 amended: the two buffers handed to a distance or score computation
\* always have the same length.  It is the minimum of the lengths of the
\* two buffers compared, except in the codec paths of the device call,
\* where it is the minimum of three lengths: the reference, the recording
\* and the decoded signal.
C12_HandedEqualLength ==
    \A h \in al.handed :
        /\ h.a = h.b
        /\ h.a = IF al.fn = "device" /\ h.slot \in Paths
                 THEN Min(al.base, Min(h.la, h.lb))
                 ELSE Min(h.la, h.lb)
        /\ al.fn = "device" => al.base = Min(al.ref, al.deg)

\* The device call handed a decoded signal and a reference that are both
\* longer than the recording.
C12_Witness ==
    /\ al.fn = "device"
    /\ al.pc = "done"
    /\ \E h \in al.handed :
          h.slot = "nb" /\ h.a = h.b /\ h.a < Min(h.la, h.lb) /\ h.a > 0

(* C13 *)

\* C13 as stated: every resampling between two different rates produces a
\* buffer, of n * target / orig samples rounded to the nearest integer.
C13_ResampleRoundsToNearest ==
    \A r \in al.rs :
        /\ ~r.raised
        /\ 2 * r.out * r.orig <= 2 * r.n * r.target + r.orig
        /\ 2 * r.out * r.orig >= 2 * r.n * r.target - r.orig

\* C13 amended: every resampling between two different rates that produces
\* a buffer produces one of n * target / orig samples rounded down, at
\* least one sample; it produces none (it raises) exactly when the signal
\* is empty or that length is 0.
C13_ResampleTruncates ==
    \A r \in al.rs :
        /\ r.orig /= r.target
        /\ ~r.raised => /\ r.out * r.orig <= r.n * r.target
                        /\ r.n * r.target < (r.out + 1) * r.orig
                        /\ r.out >= 1
        /\ r.raised <=> (r.n = 0 \/ r.n * r.target < r.orig)

\* A resampling returned a buffer one sample shorter than the nearest
\* integer to n * target / orig.
C13_Witness ==
    \E r \in al.rs :
        /\ ~r.raised
        /\ 2 * (r.n * r.target - r.out * r.orig) >= r.orig
        /\ r.out >= 1

(* C14 *)

\* C14: a 16-bit sample k that is loaded, written back to 16-bit PCM and
\* loaded again differs from k / 32768 by at most 1 / 32768, and the value
\* written is a 16-bit value.
C14_RoundTripWithinOneStep ==
    pcm.pc = "reloaded"
    => /\ pcm.w \in -32768..32767
       /\ pcm.x.den = 32768 /\ pcm.y.den = 32768
       /\ pcm.x.num = pcm.k
       /\ pcm.y.num - pcm.x.num \in {-1, 0, 1}

\* The largest sample went through peaq's writer and came back one step
\* smaller.
C14_Witness ==
    /\ pcm.pc = "reloaded"
    /\ pcm.wr = "peaq_write"
    /\ pcm.k = 32767
    /\ pcm.y = [num |-> 32766, den |-> 32768]

(* C15 *)

\* C15: a loader that fails fails with the audio-format error of its
\* module and with no other exception; it fails on every file that cannot
\* be opened or parsed and on every sample width other than 2 or 4, and it
\* returns samples only for 16-bit and 32-bit PCM.
C15_LoaderFormatError ==
    /\ ld.pc = "raised" => ld.exc \in {"PEAQError", "PESQError"}
    /\ ld.pc = "returned" => ld.file = "pcm" /\ ld.sw \in {2, 4}
    /\ (ld.pc \in {"raised", "returned"} /\ (ld.file /= "pcm" \/ ld.sw \notin {2, 4}))
          => ld.pc = "raised"

(* C16 *)

\* C16: when the reference or the degraded buffer has zero samples after
\* both are trimmed to the minimum length, compute_peaq_odg fails: it
\* returns no result, and no odg_score or lsd is reported.
C16_EmptyBufferFails ==
    (opc \in {"stft", "returned"} /\ (nRef = 0 \/ nDeg = 0))
    => /\ opc /= "returned"
       /\ odgRes = EmptyDict

(* C18 *)

\* C18: the log-spectral distance is symmetric.  For the two spectra of
\* a call, which have the same shape, the sum of squared log differences
\* and the lsd that is reported are the same with reference and degraded
\* swapped (for two empty arrays it is NaN in both orders).
C18_LsdSymmetric ==
    opc = "returned"
    => /\ Len(logRef) = Len(logDeg)
       /\ SumSq(logRef, logDeg) = SumSq(logDeg, logRef)
       /\ odgRes.lsd = LsdRounded(logDeg, logRef)

\* A result whose spectra differ in both directions: one cell where the
\* reference is above the degraded signal and one where it is below.
C18_Witness ==
    /\ opc = "returned"
    /\ \E i, j \in 1..Len(logRef) :
          logRef[i] > logDeg[i] /\ logRef[j] < logDeg[j]
    /\ ~odgRes.lsd.nan /\ odgRes.lsd.v > 0

(* C17 *)

\* C17: for every length of the degraded signal and every length of the
\* noise reference, spectral_subtract returns a signal, and it has exactly
\* as many samples as the degraded signal.
C17_OutputLengthIsInputLength ==
    ss.pc \in {"returned", "raised"}
    => ss.pc = "returned" /\ ss.out = ss.n

(* C19 *)

\* C19: every entry of the gain mask lies between the floor and 1.0, both
\* right after the max(1 - 1/snr, floor) step and after the smoothing over
\* three bins, whatever the degraded power, zero included.
C19_GainWithinFloorAndOne ==
    gn.pc \in {"max", "smoothed"}
    => \A i \in GainBins :
          /\ ~gn.gain[i].inf
          /\ RatLeq(GainFloor, gn.gain[i])
          /\ RatLeq(gn.gain[i], Rat(1, 1))

\* A smoothed frame with a bin of zero power next to a bin well above the
\* noise: the smoothed gain of the silent bin is above the floor and
\* below 1.
C19_Witness ==
    /\ gn.pc = "smoothed"
    /\ \E i \in GainBins :
          /\ gn.deg_power[i] = 0
          /\ ~RatLeq(gn.gain[i], GainFloor)
          /\ ~RatLeq(Rat(1, 1), gn.gain[i])

(* C20 *)

\* C20 as stated: in every result the simulation (compute_pesq_comparison)
\* returns, each sub-result is labelled with codec_simulation and carries
\* none of codec, bitrate and mode; and no result of make_webrtc_call or
\* make_device_webrtc_call carries codec_simulation, at the top or in a
\* sub-result.
C20_SimulationLabelled ==
    \A p \in Procs :
        Returned(p) =>
          /\ pr[p].kind = "compare" =>
                \A n \in DOMAIN pr[p].sub :
                   /\ "codec_simulation" \in DOMAIN pr[p].sub[n]
                   /\ DOMAIN pr[p].sub[n] \cap {"codec", "bitrate", "mode"} = {}
          /\ pr[p].kind \in ComparatorKinds =>
                /\ "codec_simulation" \notin DOMAIN pr[p].res
                /\ \A n \in DOMAIN pr[p].sub :
                      "codec_simulation" \notin DOMAIN pr[p].sub[n]

\* C20 amended: a result of the simulation can always be told from a
\* result of the real codecs.  Every real-codec result carries a top-level
\* type field and no simulation result does; each simulation sub-result
\* that holds a score is labelled with codec_simulation, one whose score
\* failed holds only an error message, and neither carries codec, bitrate
\* or mode; no real-codec result carries codec_simulation.
C20_SimulationDistinguishable ==
    \A p \in Procs :
        Returned(p) =>
          /\ pr[p].kind = "compare" =>
                /\ "type" \notin DOMAIN pr[p].res
                /\ DOMAIN pr[p].sub = {SubName("wb"), SubName("nb")}
                /\ \A n \in DOMAIN pr[p].sub :
                      /\ "pesq_score" \in DOMAIN pr[p].sub[n]
                            => "codec_simulation" \in DOMAIN pr[p].sub[n]
                      /\ "pesq_score" \notin DOMAIN pr[p].sub[n]
                            => pr[p].sub[n] = ErrorDict
                      /\ DOMAIN pr[p].sub[n] \cap {"codec", "bitrate", "mode"} = {}
          /\ pr[p].kind \in ComparatorKinds =>
                /\ "type" \in DOMAIN pr[p].res
                /\ "codec_simulation" \notin DOMAIN pr[p].res
                /\ \A n \in DOMAIN pr[p].sub :
                      "codec_simulation" \notin DOMAIN pr[p].sub[n]

\* The simulation returned a result whose wideband score is labelled and
\* whose narrowband score failed.
C20_Witness ==
    \E p \in Procs :
        /\ Returned(p)
        /\ pr[p].kind = "compare"
        /\ "codec_simulation" \in DOMAIN SubResult(p, "wb")
        /\ SubResult(p, "nb") = ErrorDict

(* C21 *)

\* C21: in a call of encode_decode_opus / encode_decode_g711 the decode
\* stage is invoked only after the encode stage of the same call has
\* ended successfully (exit status 0); after an encode stage that failed,
\* a non-zero exit status included, no decode stage is invoked.
C21_DecodeOnlyAfterEncodeSucceeded ==
    \A p \in Procs, x \in Paths :
        \A i \in DOMAIN hist[p].inv[x] :
            hist[p].inv[x][i][1] = "decode"
            => \E j \in 1..(i - 1) :
                  /\ hist[p].inv[x][j][1] = "encode"
                  /\ hist[p].inv[x][j][2] = "ok"

(* C22 *)

\* C22: in make_device_webrtc_call the temporary 16 kHz copy of the
\* recording exists from its creation until both codec paths have ended,
\* and it has been deleted whenever the function has returned a result,
\* whichever of the direct, wideband and narrowband steps failed.
C22_RecordingCopyLifetime ==
    \A p \in Procs :
        pr[p].kind = "device" =>
          /\ pr[p].pc \in {"dv_direct", "ed_alloc", "ed_encode", "ed_decode",
                           "ed_unlink", "p_load", "p_score", "dv_cleanup"}
                => /\ TempFiles(p, "rec16k", "-") = {pr[p].rec}
                   /\ fs[pr[p].rec].content = "data"
          /\ Returned(p) => TempFiles(p, "rec16k", "-") = {}

\* A device call returned a result in which all three steps failed, the
\* narrowband path after its encode stage had read the copy.
C22_Witness ==
    \E p \in Procs :
        /\ pr[p].kind = "device"
        /\ Returned(p)
        /\ \A s \in Slots : SubResult(p, s) = ErrorDict
        /\ Len(hist[p].inv["nb"]) = 2
        /\ TempFiles(p, "rec16k", "-") = {}

(* C23 *)

\* C23: when a request of an endpoint that stores an upload (/vmaf/score,
\* /peaq/score, /pesq/score, /webrtc/device-call, /iqa/score) has ended,
\* with a result or with an error, no temporary file created for that
\* request is left.
C23_RequestLeavesNoTempFile ==
    \A p \in Procs :
        (pr[p].kind \in UploadKinds /\ pr[p].pc = "done") => FilesOf(p) = {}

(* C24 *)

\* C24: every result make_webrtc_call returns contains voip_wideband and
\* traditional_narrowband, and every result make_device_webrtc_call
\* returns contains direct_recording as well; each of these sub-results
\* holds exactly one of pesq_score and error; and the degraded-audio
\* Base64 field of a path is present only when the sub-result of that
\* path holds pesq_score.
C24_SubResultsComplete ==
    \A p \in Procs :
        (pr[p].kind \in ComparatorKinds /\ Returned(p))
        => /\ \A x \in Paths : SubName(x) \in DOMAIN pr[p].sub
           /\ pr[p].kind = "device" => SubName("direct") \in DOMAIN pr[p].sub
           /\ \A n \in DOMAIN pr[p].sub :
                 ("pesq_score" \in DOMAIN pr[p].sub[n])
                    /= ("error" \in DOMAIN pr[p].sub[n])
           /\ \A x \in Paths :
                 (x \o "_degraded_audio_b64") \in DOMAIN pr[p].res
                 => "pesq_score" \in DOMAIN SubResult(p, x)

\* A device call returned with its direct and wideband scores, the
\* wideband audio, and a narrowband path whose score raised: an error and
\* no narrowband audio.
C24_Witness ==
    \E p \in Procs :
        /\ pr[p].kind = "device"
        /\ Returned(p)
        /\ "pesq_score" \in DOMAIN SubResult(p, "direct")
        /\ "pesq_score" \in DOMAIN SubResult(p, "wb")
        /\ "wb_degraded_audio_b64" \in DOMAIN pr[p].res
        /\ hist[p].score["nb"] = "raised"
        /\ SubResult(p, "nb") = ErrorDict
        /\ "nb_degraded_audio_b64" \notin DOMAIN pr[p].res

====
